---- MODULE Spec2Model ----
(***************************************************************************)
(* State-machine model of acast_dl.py: one run of PodcastDownloader        *)
(* .download() (conditional feed fetch through CachedRSSFeed, then the     *)
(* per-entry loop with download_file and set_metadata), and repeated runs  *)
(* of the program against the same cache file and output directory.        *)
(*                                                                         *)
(* Python values are encoded so that TLC can compare them:                 *)
(*   None                 the string "None"                                *)
(*   a str (title, id)    a sequence of one-character strings              *)
(*   an absent dict key   a record with present = FALSE                    *)
(*   a missing file       a record with exists = FALSE                     *)
(***************************************************************************)
EXTENDS Integers, Sequences, FiniteSets, TLC

\* ---------------------------------------------------------------- bounds
\* longest feed (number of entries) the origin serves
MaxEntries == 2
\* longest response body, in blocks of block_size bytes
MaxChunks == 2
\* number of times the program is started in SpecRerun
MaxRuns == 2
\* longest name given to sanitize_filename on its own
MaxNameLen == 3

\* ------------------------------------------------------- Python encodings
None == "None"

NoStatus == 0

Str(s) == [present |-> TRUE, val |-> s]

Missing == [present |-> FALSE, val |-> <<>>]

\* ------------------------------------------------------------ input pools
\* entry.title as delivered by the feed (may be empty, may hold only illegal
\* characters)
Titles == {<<>>, <<"?">>, <<"a">>}

\* entry.acast_episodeid: element absent, element empty, element with text
EpisodeIds == {Missing, Str(<<>>), Str(<<"e">>)}

Link(t, h) == [type |-> t, href |-> h]

\* entry.links: the page link alone, or the page link and the enclosure
LinkLists ==
    { <<Link("text/html", "page")>>,
      <<Link("text/html", "page"), Link("audio/mpeg", "audio")>> }

\* entry.get("published", ""): element absent, unparseable text, RFC 2822 date
PubValid == "Mon, 01 Jan 2024 10:00:00 +0000"

Published == {"", "garbage", PubValid}

\* entry.get("image", {}).get("href", None)
Images == {None, "cover"}

\* the episode id is read only when the title leaves no file name: entries
\* with a usable title carry the id <<"e">>, the others every kind of id;
\* these entries have a valid date and no image
Entries ==
    {e \in [title : Titles, acast_episodeid : EpisodeIds, links : LinkLists,
            published : {PubValid}, image : {None}] :
        (\E k \in 1 .. Len(e.title) : e.title[k] \notin {"?"})
            => e.acast_episodeid = Str(<<"e">>)}

AudioLinks == <<Link("text/html", "page"), Link("audio/mpeg", "audio")>>

\* entries for the tagging and naming checks: a titled entry with every kind
\* of date, with or without image and enclosure; untitled entries with an
\* episode id that holds a character sanitize_filename removes, with an empty
\* episode id and without episode id
MetaEntries ==
    {e \in [title : {<<"a">>}, acast_episodeid : {Str(<<"e">>)},
            links : LinkLists, published : Published, image : Images] :
        e.links # AudioLinks => (e.published = "garbage" /\ e.image = None)}
    \cup [title : {<<>>},
          acast_episodeid : {Str(<<"e", "?">>), Missing, Str(<<>>)},
          links : {AudioLinks}, published : {"garbage"}, image : {None}]

RECURSIVE SeqsUpTo(_, _)
SeqsUpTo(S, n) ==
    IF n = 0 THEN {<<>>}
    ELSE LET shorter == SeqsUpTo(S, n - 1)
         IN shorter \cup {Append(s, x) : s \in {t \in shorter : Len(t) = n - 1}, x \in S}

Feeds == SeqsUpTo(Entries, MaxEntries)

MetaFeeds == SeqsUpTo(MetaEntries, MaxEntries)

\* feed URLs that may have an entry in rss_cache.json
URLs == {"u1", "u2"}

\* --rss-url of every run
rss_url == "u1"

\* etag / modified values an origin sends (None: header absent)
Validator(e, m) == [present |-> TRUE, etag |-> e, modified |-> m]

NoValidator == [present |-> FALSE, etag |-> None, modified |-> None]

ServerValidators == {Validator("e2", "m2"), Validator(None, None)}

\* HTTP statuses of the audio origin: urlopen returns on 2xx and raises
\* HTTPError on 4xx/5xx
Statuses == {200, 204, 404}

\* --------------------------------------------------------- pure functions
\* the character class of the regular expression in sanitize_filename
Illegal == {"\\", "/", "*", "?", ":", "\"", "<", ">", "|"}

Legal(c) == c \notin Illegal

\* re.sub with count=1: only the first occurrence removed
RECURSIVE sanitize_filename_first(_)
sanitize_filename_first(s) ==
    IF s = <<>> THEN <<>>
    ELSE IF Legal(Head(s)) THEN <<Head(s)>> \o sanitize_filename_first(Tail(s))
    ELSE Tail(s)

\* re.sub(r'[\\/*?:"<>|]', "", name)
sanitize_filename(s) == SelectSeq(s, Legal)

Ext == <<".", "m", "p", "3">>

\* Python truthiness of a URL: a str or None
Truthy(v) == v # None /\ v # ""

\* the first link taken whatever its type
get_audio_url_any(links) == IF links = <<>> THEN None ELSE Head(links).href

\* first link of type audio/mpeg, else None
RECURSIVE get_audio_url(_)
get_audio_url(links) ==
    IF links = <<>> THEN None
    ELSE IF Head(links).type = "audio/mpeg" THEN Head(links).href
    ELSE get_audio_url(Tail(links))

\* f"{sanitize_filename(title)}.mp3"
TitleFilename(entry) == sanitize_filename(entry.title) \o Ext

\* the fallback branch is taken when the title leaves nothing but ".mp3"
NeedsFallback(entry) == TitleFilename(entry) = Ext

\* entry.acast_episodeid is an attribute access: it raises AttributeError
\* when the feed entry has no acast:episodeId element
RaisesNoEpisodeId(entry) == NeedsFallback(entry) /\ ~entry.acast_episodeid.present

\* "No title and no episodeId, skip this episode"
NoUsableName(entry) ==
    /\ NeedsFallback(entry)
    /\ entry.acast_episodeid.present
    /\ entry.acast_episodeid.val = <<>>

\* the file name the loop settles on (f"{entry.acast_episodeid}.mp3" in the
\* fallback branch); os.path.join(podcast_dir, filename) keeps it inside the
\* show directory, so the name identifies the path
Filename(entry) ==
    IF NeedsFallback(entry) THEN entry.acast_episodeid.val \o Ext
    ELSE TitleFilename(entry)

\* every path a run can compute from the input pools
Paths ==
    {TitleFilename([title |-> t]) : t \in Titles}
        \cup {id.val \o Ext : id \in {x \in EpisodeIds : x.present}}
        \cup {Filename(e) : e \in MetaEntries}

\* ------------------------------------------------------------------ files
\* by: <<run, idx>> of the download_file call that created the file
\* tags: the ID3 frames saved into the file, date: the text of its TDRC frame
NoFile == [exists |-> FALSE, by |-> <<0, 0>>, chunks |-> 0,
           complete |-> FALSE, tagged |-> FALSE, tags |-> {}, date |-> None]

\* a file that was in the show directory before the first run
OldFile == [exists |-> TRUE, by |-> <<0, 0>>, chunks |-> 1,
            complete |-> TRUE, tagged |-> FALSE, tags |-> {}, date |-> None]

\* open(dest_path, "wb"): creates or truncates
OpenedFile(r, i) == [exists |-> TRUE, by |-> <<r, i>>, chunks |-> 0,
                     complete |-> FALSE, tagged |-> FALSE, tags |-> {},
                     date |-> None]

\* paths that may hold a file before the first run
OldPaths == {<<"a">> \o Ext}

EmptyCache == [u \in URLs |-> NoValidator]

NoStore == [exists |-> FALSE, map |-> EmptyCache]

\* rss_cache.json as left by earlier runs: absent, or holding validators
InitialStores ==
    { NoStore,
      [exists |-> TRUE,
       map |-> [u \in URLs |-> IF u = rss_url THEN Validator("e1", "m1")
                                ELSE Validator("e9", "m9")]] }

VARIABLES
    origin,     \* the entries the feed origin serves
    disk,       \* show directory: path -> file
    store,      \* rss_cache.json
    cache,      \* CachedRSSFeed.cache of the running process
    feed,       \* result of rss.fetch in the running process
    pc,         \* position of the running process
    idx,        \* position of the for loop in feed.entries (1-based)
    call,       \* activation of download_file: dest_path, response, outcome
    run,        \* number of the current run
    saves,      \* number of times _save_cache wrote rss_cache.json
    log,        \* per run, per resolved entry: what was printed, the target
                \* path and the file found there when the entry was reached
    snap,       \* disk, cache file and save count when the run started
    fetched,    \* per run: status of the feed result
    dlCalled,   \* <<run, idx>> for which download_file was invoked
    dlRet,      \* <<run, idx, value>> returned by download_file
    tagCalled,  \* <<run, idx>> for which set_metadata was invoked
    ended,      \* per run: how download() ended
    name,       \* a string handed to sanitize_filename on its own
    sanitized   \* the results of applying sanitize_filename to name, then
                \* to its own result

vars == <<name, sanitized, origin, disk, store, cache, feed, pc, idx, call, run, saves, log,
          snap, fetched, dlCalled, dlRet, tagCalled, ended>>

NoFeed == [kind |-> "none", status |-> NoStatus, etag |-> None,
           modified |-> None, entries |-> <<>>]

\* no download_file activation
NoTagOutcome == [load |-> "none", image |-> "none", save |-> "none"]

NoCall == [active |-> FALSE, dest_path |-> <<>>, status |-> NoStatus,
           body |-> 0, error |-> "none", ret |-> FALSE, before |-> NoFile,
           tag |-> NoTagOutcome]

Runs == 1 .. MaxRuns

InitFrom(feeds, stores) ==
    /\ origin \in feeds
    /\ disk \in {[p \in Paths |-> IF p \in S THEN OldFile ELSE NoFile] : S \in SUBSET OldPaths}
    /\ store \in stores
    /\ cache = EmptyCache
    /\ feed = NoFeed
    /\ pc = "start"
    /\ idx = 0
    /\ call = NoCall
    /\ run = 1
    /\ saves = 0
    /\ log = [r \in Runs |-> <<>>]
    /\ snap = [disk |-> disk, store |-> store, saves |-> 0]
    /\ fetched = [r \in Runs |-> NoStatus]
    /\ dlCalled = {}
    /\ dlRet = {}
    /\ tagCalled = {}
    /\ ended = [r \in Runs |-> "no"]

\* sanitize_filename is not called outside download()
NotSanitizing == name = <<>> /\ sanitized = <<>>

Init == InitFrom(Feeds, InitialStores) /\ NotSanitizing

\* ------------------------------------------------------------ CachedRSSFeed
\* _load_cache: json.load of the file when it exists, else {}
load_cache(st) == IF st.exists THEN st.map ELSE EmptyCache

\* _save_cache: json.dump of the whole mapping (str keys, str or null values
\* come back unchanged from json.load)
save_cache(c) == [exists |-> TRUE, map |-> c]

\* self.cache.get(url, {}).get("etag") and .get("modified")
CachedEtag(c, url) == IF c[url].present THEN c[url].etag ELSE None

CachedModified(c, url) == IF c[url].present THEN c[url].modified ELSE None

\* what feedparser.parse(url, etag, modified) can come back with: the feed
\* with the origin's validators, "not modified" when a validator was sent, or
\* an empty result without status when the feed is unreachable or unparseable
FeedResults(etag, modified) ==
    {[kind |-> "snapshot", status |-> 200, etag |-> v.etag,
      modified |-> v.modified, entries |-> origin] : v \in ServerValidators}
    \cup (IF etag # None \/ modified # None
          THEN {[kind |-> "snapshot", status |-> 304, etag |-> etag,
                 modified |-> modified, entries |-> <<>>]}
          ELSE {})
    \cup {[kind |-> "snapshot", status |-> NoStatus, etag |-> None,
           modified |-> None, entries |-> <<>>]}

\* feed.get("status") == 304
NotModified(result) == result.status = 304

\* the mapping replaced by one that holds this URL only
UpdatedCache_alone(c, url, result) ==
    [u \in URLs |-> IF u = url THEN Validator(result.etag, result.modified)
                    ELSE NoValidator]

\* self.cache[url] = {"etag": feed.get("etag"), "modified": feed.get("modified")}
UpdatedCache(c, url, result) ==
    [c EXCEPT ![url] = Validator(result.etag, result.modified)]

\* rss = CachedRSSFeed() in download()
start ==
    /\ pc = "start"
    /\ cache' = load_cache(store)
    /\ ended' = [ended EXCEPT ![run] = "running"]
    /\ snap' = [disk |-> disk, store |-> store, saves |-> saves]
    /\ pc' = "fetch"
    /\ UNCHANGED <<name, sanitized, origin, disk, store, feed, idx, call, run, saves, log, fetched,
                   dlCalled, dlRet, tagCalled>>

\* the cache entry written and saved before the 304 test
fetch_not_modified_saving ==
    /\ pc = "fetch"
    /\ \E result \in FeedResults(CachedEtag(cache, rss_url), CachedModified(cache, rss_url)) :
        /\ NotModified(result)
        /\ cache' = UpdatedCache(cache, rss_url, result)
        /\ feed' = [result EXCEPT !.kind = "unchanged"]
        /\ fetched' = [fetched EXCEPT ![run] = result.status]
    /\ store' = save_cache(cache')
    /\ saves' = saves + 1
    /\ ended' = [ended EXCEPT ![run] = "not_modified"]
    /\ pc' = "done"
    /\ UNCHANGED <<name, sanitized, origin, disk, idx, call, run, log, snap, dlCalled, dlRet, tagCalled>>

\* fetch returns None; download() prints "No new episodes." and returns
fetch_not_modified ==
    /\ pc = "fetch"
    /\ \E result \in FeedResults(CachedEtag(cache, rss_url), CachedModified(cache, rss_url)) :
        /\ NotModified(result)
        /\ feed' = [result EXCEPT !.kind = "unchanged"]
        /\ fetched' = [fetched EXCEPT ![run] = result.status]
    /\ ended' = [ended EXCEPT ![run] = "not_modified"]
    /\ pc' = "done"
    /\ UNCHANGED <<name, sanitized, origin, disk, store, cache, idx, call, run, saves, log, snap,
                   dlCalled, dlRet, tagCalled>>

\* fetch stores the validators, saves the cache and returns the feed;
\* download() creates the show directory and enters the loop
fetch_new ==
    /\ pc = "fetch"
    /\ \E result \in FeedResults(CachedEtag(cache, rss_url), CachedModified(cache, rss_url)) :
        /\ ~NotModified(result)
        /\ cache' = UpdatedCache(cache, rss_url, result)
        /\ feed' = result
        /\ fetched' = [fetched EXCEPT ![run] = result.status]
    /\ store' = save_cache(cache')
    /\ saves' = saves + 1
    /\ idx' = 1
    /\ pc' = "loop"
    /\ UNCHANGED <<name, sanitized, origin, disk, call, run, log, snap, dlCalled, dlRet, tagCalled,
                   ended>>

\* ------------------------------------------------------- download(): loop
Entry == feed.entries[idx]

InLoop == pc = "loop" /\ idx <= Len(feed.entries)

\* the existence test always negative
path_exists_never(d, path) == FALSE

\* os.path.exists(file_path)
path_exists(d, path) == d[path].exists

\* continue, or fall off the end of the loop body: next entry
NextEntry(what, path, before, cover) ==
    /\ log' = [log EXCEPT ![run] =
                  Append(@, [what |-> what, path |-> path, before |-> before,
                             cover |-> cover])]
    /\ idx' = idx + 1
    /\ pc' = "loop"

\* the loop left after the first entry
loop_end_truncated ==
    /\ pc = "loop"
    /\ idx > 1
    /\ ended' = [ended EXCEPT ![run] = "completed"]
    /\ pc' = "done"
    /\ UNCHANGED <<name, sanitized, origin, snap, fetched, disk, store, cache, feed, idx, call, run, saves, log,
                   dlCalled, dlRet, tagCalled>>

\* for entry in entries: exhausted, download() returns
loop_end ==
    /\ pc = "loop"
    /\ idx > Len(feed.entries)
    /\ ended' = [ended EXCEPT ![run] = "completed"]
    /\ pc' = "done"
    /\ UNCHANGED <<name, sanitized, origin, snap, fetched, disk, store, cache, feed, idx, call, run, saves, log,
                   dlCalled, dlRet, tagCalled>>

\* filename == ".mp3" and the entry has no acast_episodeid attribute:
\* AttributeError leaves download() and ends the process
raise_no_episodeid ==
    /\ InLoop
    /\ RaisesNoEpisodeId(Entry)
    /\ ended' = [ended EXCEPT ![run] = "AttributeError"]
    /\ pc' = "raised"
    /\ UNCHANGED <<name, sanitized, origin, snap, fetched, disk, store, cache, feed, idx, call, run, saves, log,
                   dlCalled, dlRet, tagCalled>>

\* "No title and no episodeId, skip this episode"
skip_no_name ==
    /\ InLoop
    /\ NoUsableName(Entry)
    /\ NextEntry("no_name", <<>>, NoFile, "none")
    /\ UNCHANGED <<name, sanitized, origin, snap, fetched, disk, store, cache, feed, call, run, saves,
                   dlCalled, dlRet, tagCalled, ended>>

HasName(entry) == ~RaisesNoEpisodeId(entry) /\ ~NoUsableName(entry)

\* "Skipping ... (no MP3 link found)"
skip_no_audio ==
    /\ InLoop
    /\ HasName(Entry)
    /\ ~Truthy(get_audio_url(Entry.links))
    /\ NextEntry("no_audio", Filename(Entry), disk[Filename(Entry)], "none")
    /\ UNCHANGED <<name, sanitized, origin, snap, fetched, disk, store, cache, feed, call, run, saves,
                   dlCalled, dlRet, tagCalled, ended>>

\* "Already exists: ..."
already_exists ==
    /\ InLoop
    /\ HasName(Entry)
    /\ Truthy(get_audio_url(Entry.links))
    /\ path_exists(disk, Filename(Entry))
    /\ NextEntry("exists", Filename(Entry), disk[Filename(Entry)], "none")
    /\ UNCHANGED <<name, sanitized, origin, snap, fetched, disk, store, cache, feed, call, run, saves,
                   dlCalled, dlRet, tagCalled, ended>>

\* download_file entered without the existence test
call_download_file_unguarded ==
    /\ InLoop
    /\ HasName(Entry)
    /\ Truthy(get_audio_url(Entry.links))
    /\ call' = [NoCall EXCEPT !.active = TRUE, !.dest_path = Filename(Entry),
                              !.before = disk[Filename(Entry)]]
    /\ dlCalled' = dlCalled \cup {<<run, idx>>}
    /\ pc' = "urlopen"
    /\ UNCHANGED <<name, sanitized, origin, snap, fetched, disk, store, cache, feed, idx, run, saves, log,
                   dlRet, tagCalled, ended>>

\* the download handed to a background worker: the loop goes on to the next
\* entry without waiting for it
call_download_file_detached ==
    /\ InLoop
    /\ HasName(Entry)
    /\ Truthy(get_audio_url(Entry.links))
    /\ ~path_exists(disk, Filename(Entry))
    /\ call' = [NoCall EXCEPT !.active = TRUE, !.dest_path = Filename(Entry),
                              !.before = disk[Filename(Entry)]]
    /\ dlCalled' = dlCalled \cup {<<run, idx>>}
    /\ NextEntry("downloaded", Filename(Entry), disk[Filename(Entry)], "none")
    /\ UNCHANGED <<name, sanitized, origin, snap, fetched, disk, store, cache, feed, run, saves,
                   dlRet, tagCalled, ended>>

\* self.download_file(audio_url, file_path) is entered
call_download_file ==
    /\ InLoop
    /\ HasName(Entry)
    /\ Truthy(get_audio_url(Entry.links))
    /\ ~path_exists(disk, Filename(Entry))
    /\ call' = [NoCall EXCEPT !.active = TRUE, !.dest_path = Filename(Entry),
                              !.before = disk[Filename(Entry)]]
    /\ dlCalled' = dlCalled \cup {<<run, idx>>}
    /\ pc' = "urlopen"
    /\ UNCHANGED <<name, sanitized, origin, snap, fetched, disk, store, cache, feed, idx, run, saves, log,
                   dlRet, tagCalled, ended>>

\* ----------------------------------------------------------- download_file
\* every success-class status accepted
StatusAccepted_2xx(status) == status \in 200 .. 299

\* lengths of the response body in blocks: empty, or MaxChunks blocks
BodyLengths == {0, MaxChunks}

\* response.status != 200 is the failure test after urlopen returned
StatusAccepted(status) == status = 200

\* urlopen raises HTTPError for these statuses, returns a response otherwise
RaisesHTTPError(status) == status >= 400

Return(value) ==
    /\ call' = [call EXCEPT !.ret = value]
    /\ dlRet' = dlRet \cup {<<run, idx, value>>}
    /\ pc' = "returned"

\* urlopen raises HTTPError (status >= 400) or URLError (no response)
dl_urlopen_raises ==
    /\ pc = "urlopen"
    /\ \/ \E st \in Statuses :
            /\ RaisesHTTPError(st)
            /\ call' = [call EXCEPT !.status = st, !.error = "HTTPError"]
       \/ call' = [call EXCEPT !.error = "URLError"]
    /\ pc' = "except"
    /\ UNCHANGED <<name, sanitized, origin, snap, fetched, disk, store, cache, feed, idx, run, saves, log,
                   dlCalled, dlRet, tagCalled, ended>>

\* "Failed to download (HTTP ...)": return False from inside the try
dl_status_rejected ==
    /\ pc = "urlopen"
    /\ \E st \in Statuses :
        /\ ~RaisesHTTPError(st)
        /\ ~StatusAccepted(st)
        /\ call' = [call EXCEPT !.status = st, !.ret = FALSE]
    /\ dlRet' = dlRet \cup {<<run, idx, FALSE>>}
    /\ pc' = "returned"
    /\ UNCHANGED <<name, sanitized, origin, snap, fetched, disk, store, cache, feed, idx, run, saves, log,
                   dlCalled, tagCalled, ended>>

\* status 200 and open(dest_path, "wb") succeeds: the file exists, empty
dl_open ==
    /\ pc = "urlopen"
    /\ \E st \in Statuses, body \in BodyLengths :
        /\ ~RaisesHTTPError(st)
        /\ StatusAccepted(st)
        /\ call' = [call EXCEPT !.status = st, !.body = body]
    /\ disk' = [disk EXCEPT ![call.dest_path] = OpenedFile(run, idx)]
    /\ pc' = "stream"
    /\ UNCHANGED <<name, sanitized, origin, snap, fetched, store, cache, feed, idx, run, saves, log,
                   dlCalled, dlRet, tagCalled, ended>>

\* status 200 and open(dest_path, "wb") raises OSError: nothing is created
dl_open_raises ==
    /\ pc = "urlopen"
    /\ \E st \in Statuses :
        /\ ~RaisesHTTPError(st)
        /\ StatusAccepted(st)
        /\ call' = [call EXCEPT !.status = st, !.error = "OSError"]
    /\ pc' = "except"
    /\ UNCHANGED <<name, sanitized, origin, snap, fetched, disk, store, cache, feed, idx, run, saves, log,
                   dlCalled, dlRet, tagCalled, ended>>

\* one round of the while loop: a block is read and written
dl_write_block ==
    /\ pc = "stream"
    /\ disk[call.dest_path].chunks < call.body
    /\ disk' = [disk EXCEPT ![call.dest_path].chunks = @ + 1]
    /\ UNCHANGED <<name, sanitized, origin, snap, fetched, store, cache, feed, pc, idx, call, run, saves, log,
                   dlCalled, dlRet, tagCalled, ended>>

\* response.read raises (connection lost) or out_file.write raises (disk):
\* the with block closes the partial file and the except clause is entered
dl_stream_raises ==
    /\ pc = "stream"
    /\ disk[call.dest_path].chunks < call.body
    /\ \E e \in {"IncompleteRead", "OSError"} : call' = [call EXCEPT !.error = e]
    /\ pc' = "except"
    /\ UNCHANGED <<name, sanitized, origin, snap, fetched, disk, store, cache, feed, idx, run, saves, log,
                   dlCalled, dlRet, tagCalled, ended>>

\* response.read returns b"": break, the file is closed, return True
dl_complete ==
    /\ pc = "stream"
    /\ disk[call.dest_path].chunks = call.body
    /\ disk' = [disk EXCEPT ![call.dest_path].complete = TRUE]
    /\ Return(TRUE)
    /\ UNCHANGED <<name, sanitized, origin, snap, fetched, store, cache, feed, idx, run, saves, log,
                   dlCalled, tagCalled, ended>>

\* the cleanup left out: the partial file stays
remove_partial_kept(d, path) == d

\* if os.path.exists(dest_path): os.remove(dest_path)
remove_partial(d, path) == IF path_exists(d, path) THEN [d EXCEPT ![path] = NoFile] ELSE d

\* after the except clauses: remove what was written, return False
dl_cleanup ==
    /\ pc = "except"
    /\ disk' = remove_partial(disk, call.dest_path)
    /\ Return(FALSE)
    /\ UNCHANGED <<name, sanitized, origin, snap, fetched, store, cache, feed, idx, run, saves, log,
                   dlCalled, tagCalled, ended>>

\* ------------------------------------------- download(): after download_file
\* set_metadata called whatever download_file returned
TagAfter_always(ret) == TRUE

\* if self.download_file(...): the branch that calls set_metadata
TagAfter(ret) == ret

\* parsedate_to_datetime(published): raises on "" and on text that is no
\* RFC 2822 date, else the datetime whose strftime("%F") is the ISO date
parsedate_to_datetime(published) ==
    IF published = PubValid THEN [raised |-> FALSE, date |-> "2024-01-01"]
    ELSE [raised |-> TRUE, date |-> None]

\* the except branch leaving the date unset
entry_date_unset(published) == parsedate_to_datetime(published).date

\* try: date = parsedate_to_datetime(published).strftime("%F")
\* except Exception: date = "unknown"
entry_date(published) ==
    IF parsedate_to_datetime(published).raised THEN "unknown"
    ELSE parsedate_to_datetime(published).date

\* the metadata dict download() builds for an entry
Metadata(entry) ==
    [title |-> entry.title, author |-> "author", album |-> "show",
     date |-> entry_date(entry.published), description |-> "summary",
     link |-> "page"]

\* what the environment does to one set_metadata call: ID3(mp3_path) finds
\* tags, finds no header (caught), or fails; the image fetch and embedding
\* work or fail when an image URL was given; tags.save works or fails
TagOutcomes(image_url) ==
    [load : {"ok", "noheader", "error"},
     image : IF Truthy(image_url) THEN {"ok", "fail"} ELSE {"none"},
     save : {"ok", "error"}]

\* the image block without its try: a failed image fetch leaves set_metadata
set_metadata_propagates_image(outcome) ==
    outcome.load = "error" \/ outcome.save = "error" \/ outcome.image = "fail"

\* the exceptions that leave set_metadata: only ID3() and tags.save are
\* outside a try block that catches them
set_metadata_propagates(outcome) ==
    outcome.load = "error" \/ outcome.save = "error"

\* the frames tags.save writes
Frames(metadata, image_url, outcome) ==
    {"TIT2", "TPE1", "TALB", "TDRC"}
        \cup (IF "description" \in DOMAIN metadata THEN {"COMM"} ELSE {})
        \cup (IF "link" \in DOMAIN metadata THEN {"WOAS"} ELSE {})
        \cup (IF Truthy(image_url) /\ outcome.image = "ok" THEN {"APIC"} ELSE {})

\* set_metadata(file_path, metadata, image_url): tags.save(mp3_path)
set_metadata(d, path, metadata, image_url, outcome) ==
    [d EXCEPT ![path].tagged = TRUE,
              ![path].tags = Frames(metadata, image_url, outcome),
              ![path].date = metadata.date]

tag_downloaded ==
    /\ pc = "returned"
    /\ TagAfter(call.ret)
    /\ tagCalled' = tagCalled \cup {<<run, idx>>}
    /\ \E outcome \in TagOutcomes(Entry.image) :
        /\ ~set_metadata_propagates(outcome)
        /\ disk' = set_metadata(disk, call.dest_path, Metadata(Entry), Entry.image,
                                outcome)
        /\ NextEntry("downloaded", call.dest_path, call.before, outcome.image)
    /\ call' = NoCall
    /\ UNCHANGED <<name, sanitized, origin, snap, fetched, store, cache, feed, run, saves, dlCalled, dlRet, ended>>

\* ID3(mp3_path) raises something other than ID3NoHeaderError, or
\* tags.save(mp3_path) raises: nothing in set_metadata or download() catches
\* it, the downloaded file stays as it is
set_metadata_raises ==
    /\ pc = "returned"
    /\ TagAfter(call.ret)
    /\ tagCalled' = tagCalled \cup {<<run, idx>>}
    /\ \E outcome \in TagOutcomes(Entry.image) :
        /\ set_metadata_propagates(outcome)
        /\ call' = [call EXCEPT !.tag = outcome]
    /\ ended' = [ended EXCEPT ![run] = "TagError"]
    /\ pc' = "raised"
    /\ UNCHANGED <<name, sanitized, origin, snap, fetched, disk, store, cache, feed, idx, run,
                   saves, log, dlCalled, dlRet>>

\* "Skipping metadata for ... due to download failure."
skip_metadata ==
    /\ pc = "returned"
    /\ ~TagAfter(call.ret)
    /\ call' = NoCall
    /\ NextEntry("failed", call.dest_path, call.before, "none")
    /\ UNCHANGED <<name, sanitized, origin, snap, fetched, disk, store, cache, feed, run, saves, dlCalled, dlRet,
                   tagCalled, ended>>

\* ---------------------------------------------------------------- __main__
\* the program is started again after a run ended (normally or by the
\* uncaught exception): a new process, same cache file, same directory
rerun ==
    /\ pc \in {"done", "raised"}
    /\ run < MaxRuns
    /\ run' = run + 1
    /\ cache' = EmptyCache
    /\ feed' = NoFeed
    /\ idx' = 0
    /\ call' = NoCall
    /\ pc' = "start"
    /\ UNCHANGED <<name, sanitized, origin, snap, fetched, disk, store, saves, log, dlCalled, dlRet, tagCalled, ended>>

download_file ==
    \/ dl_urlopen_raises
    \/ dl_status_rejected
    \/ dl_open
    \/ dl_open_raises
    \/ dl_write_block
    \/ dl_stream_raises
    \/ dl_complete
    \/ dl_cleanup

download ==
    \/ start
    \/ fetch_not_modified
    \/ fetch_new
    \/ loop_end
    \/ raise_no_episodeid
    \/ skip_no_name
    \/ skip_no_audio
    \/ already_exists
    \/ call_download_file
    \/ download_file
    \/ tag_downloaded
    \/ set_metadata_raises
    \/ skip_metadata

Next == download

Spec == Init /\ [][Next]_vars

NextRerun == download \/ rerun

\* feeds of the repeated runs: titled entries and untitled ones with every
\* kind of episode id, with and without enclosure; the first run finds no
\* cache file
RerunEntries == {e \in Entries : e.title \in {<<>>, <<"a">>}}

InitRerun ==
    /\ Init
    /\ \A i \in 1 .. Len(origin) : origin[i] \in RerunEntries
    /\ store = NoStore

SpecRerun == InitRerun /\ [][NextRerun]_vars

\* one run over the feeds of MetaFeeds
InitMeta == InitFrom(MetaFeeds, InitialStores) /\ NotSanitizing

SpecMeta == InitMeta /\ [][Next]_vars

\* sanitize_filename on its own: names over the characters of the class, a
\* letter and a dot
NameChars == Illegal \cup {"a", "."}

Names == SeqsUpTo(NameChars, MaxNameLen)

\* downloader.sanitize_filename(name)
sanitize_once ==
    /\ Len(sanitized) = 0
    /\ sanitized' = <<sanitize_filename(name)>>
    /\ UNCHANGED <<name, origin, disk, store, cache, feed, pc, idx, call, run,
                   saves, log, snap, fetched, dlCalled, dlRet, tagCalled, ended>>

\* downloader.sanitize_filename(downloader.sanitize_filename(name))
sanitize_again ==
    /\ Len(sanitized) = 1
    /\ sanitized' = Append(sanitized, sanitize_filename(sanitized[1]))
    /\ UNCHANGED <<name, origin, disk, store, cache, feed, pc, idx, call, run,
                   saves, log, snap, fetched, dlCalled, dlRet, tagCalled, ended>>

InitSanitize ==
    /\ InitFrom({<<>>}, {NoStore})
    /\ name \in Names
    /\ sanitized = <<>>

NextSanitize == sanitize_once \/ sanitize_again

SpecSanitize == InitSanitize /\ [][NextSanitize]_vars

\* ----------------------------------------------------------------- claims
HasAudioLink(entry) ==
    \E k \in 1 .. Len(entry.links) : entry.links[k].type = "audio/mpeg"

SanitizedTitleEmpty(entry) ==
    \A k \in 1 .. Len(entry.title) : entry.title[k] \in Illegal

Resolved(r) == 1 .. Len(log[r])

CallsOf(r) == {c \in dlCalled : c[1] = r}

\* C1: whenever download_file returns False, whatever the cause, no file
\* exists at dest_path at that moment, and no exception leaves download_file:
\* the process never ends by an exception raised inside an activation that
\* has not returned.
C1_FailedDownloadLeavesNoFile ==
    /\ (pc = "returned" /\ ~call.ret) => ~disk[call.dest_path].exists
    /\ pc = "raised" => (~call.active \/ call.ret)
    /\ \A d \in dlRet : (d[1] = run /\ d[2] < idx /\ ~d[3]) =>
           \A p \in Paths : disk[p].by # <<d[1], d[2]>>

\* a transfer interrupted after the file was opened has returned False
C1_Witness ==
    /\ pc = "returned"
    /\ ~call.ret
    /\ call.error \in {"IncompleteRead", "OSError"}
    /\ call.status = 200
    /\ call.body > 0

\* C2: set_metadata is invoked for an entry only after download_file returned
\* True for that entry in the same run; an entry whose download failed or
\* that was skipped is never tagged.
C2_TagOnlyAfterSuccess ==
    /\ \A t \in tagCalled : <<t[1], t[2], TRUE>> \in dlRet
    /\ \A t \in tagCalled : <<t[1], t[2], FALSE>> \notin dlRet
    /\ \A r \in Runs : \A i \in Resolved(r) :
           log[r][i].what \in {"failed", "no_name", "no_audio", "exists"}
               => <<r, i>> \notin tagCalled

\* one entry was tagged after its download and another one failed
C2_Witness ==
    /\ \E t \in tagCalled : t[1] = run
    /\ \E d \in dlRet : d[1] = run /\ ~d[3]
    /\ \E i \in Resolved(run) : log[run][i].what = "failed"

\* C3: after a 304 answer fetch returns None with the in-memory mapping and
\* the cache file as they were when the run started, and the run ends with no
\* download, no tagging and no file written.
C3_NotModifiedChangesNothing ==
    fetched[run] = 304 =>
        /\ feed.kind = "unchanged"
        /\ pc = "done"
        /\ ended[run] = "not_modified"
        /\ cache = load_cache(snap.store)
        /\ store = snap.store
        /\ saves = snap.saves
        /\ disk = snap.disk
        /\ CallsOf(run) = {}
        /\ \A t \in tagCalled : t[1] # run
        /\ log[run] = <<>>

\* a feed with entries to download was answered 304
C3_Witness ==
    /\ fetched[run] = 304
    /\ pc = "done"
    /\ \E i \in 1 .. Len(origin) :
           /\ HasAudioLink(origin[i])
           /\ ~SanitizedTitleEmpty(origin[i])
           /\ ~disk[Filename(origin[i])].exists

\* C4: from the moment fetch returns a feed, the cache file holds exactly the
\* in-memory mapping, the entry of the fetched URL holds the etag and
\* modified values of that response, every other URL has the entry it had in
\* the file when the run started, and the file was written once; no download
\* starts in a run before that.
C4_WriteThrough ==
    /\ feed.kind = "snapshot" =>
        /\ store.exists
        /\ store.map = cache
        /\ cache[rss_url].present
        /\ cache[rss_url].etag = feed.etag
        /\ cache[rss_url].modified = feed.modified
        /\ \A u \in URLs \ {rss_url} : cache[u] = load_cache(snap.store)[u]
        /\ saves = snap.saves + 1
    /\ CallsOf(run) # {} => feed.kind = "snapshot"

\* a modified feed: the stored validator of the URL was replaced, the one of
\* the other URL is still there, and fetch has just returned
C4_Witness ==
    /\ feed.kind = "snapshot"
    /\ pc = "loop"
    /\ idx = 1
    /\ feed.status = 200
    /\ snap.store.exists
    /\ snap.store.map[rss_url] # cache[rss_url]
    /\ cache["u2"].present

\* C5: an entry whose target path exists when the entry is reached gets no
\* download_file call and no set_metadata call, and the file at that path is
\* the same from then to the end of the run.
C5_ExistingTargetUntouched ==
    \A r \in Runs : \A i \in Resolved(r) :
        log[r][i].before.exists =>
            /\ <<r, i>> \notin dlCalled
            /\ <<r, i>> \notin tagCalled
            /\ r = run => disk[log[r][i].path] = log[r][i].before

\* the run ended after it met an entry whose file was there before the run
\* and an entry it had to download
C5_Witness ==
    /\ pc = "done"
    /\ \E i \in Resolved(run) :
           /\ log[run][i].what = "exists"
           /\ log[run][i].before = OldFile
    /\ \E i \in Resolved(run) : log[run][i].what = "downloaded"

\* C6: for an entry without a link of type audio/mpeg, download_file is never
\* invoked and no file is created, whatever its title and episode id.
C6_NoAudioNoDownload ==
    /\ \A c \in dlCalled : HasAudioLink(origin[c[2]])
    /\ \A p \in Paths :
           disk[p].by # <<0, 0>> => HasAudioLink(origin[disk[p].by[2]])
    /\ \A r \in Runs : \A i \in Resolved(r) :
           ~HasAudioLink(origin[i]) =>
               /\ log[r][i].what \in {"no_audio", "no_name"}
               /\ <<r, i>> \notin tagCalled

\* entries without audio link were passed over, one named by its title and
\* one by its episode id, and the run went on to download another entry
C6_Witness ==
    /\ pc = "done"
    /\ \E i \in Resolved(run) :
           /\ ~HasAudioLink(origin[i])
           /\ log[run][i].what = "no_audio"
           /\ SanitizedTitleEmpty(origin[i])
    /\ \E i \in Resolved(run) : log[run][i].what = "downloaded"

NoEpisodeId(entry) ==
    ~entry.acast_episodeid.present \/ entry.acast_episodeid.val = <<>>

\* an entry with an audio link and a usable name
Usable(entry) ==
    HasAudioLink(entry) /\ ~(SanitizedTitleEmpty(entry) /\ NoEpisodeId(entry))

\* every download_file call of run r returned True and every tagging worked
AllSucceeded(r) ==
    /\ \A d \in dlRet : d[1] = r => d[3]
    /\ ended[r] # "TagError"

C8_AsStated ==
    pc = "returned" =>
        (call.ret <=> (call.status \in 200 .. 299 /\ call.error = "none"))

\* C8: download_file returns True if and only if the response status is 200
\* and the whole body was written to dest_path without network or I/O error;
\* it returns False in every other case, a 2xx status other than 200 included.
C8_SuccessIffStatus200AndBodyWritten ==
    pc = "returned" =>
        /\ call.ret <=> (call.status = 200 /\ call.error = "none")
        /\ call.ret <=>
              /\ disk[call.dest_path].exists
              /\ disk[call.dest_path].complete
              /\ disk[call.dest_path].chunks = call.body
              /\ disk[call.dest_path].by = <<run, idx>>

\* a body of several blocks was written and True returned
C8_Witness ==
    /\ pc = "returned"
    /\ call.ret
    /\ call.body = MaxChunks
    /\ disk[call.dest_path].chunks = MaxChunks

\* the claim of C9: once fetch returned the feed, the run never ends by an
\* exception, and when it ends every entry of the feed has been resolved.
C9_RunNeverInterrupted ==
    /\ pc # "raised"
    /\ ended[run] \notin {"AttributeError", "TagError"}
    /\ (pc = "done" /\ feed.kind = "snapshot") => Len(log[run]) = Len(feed.entries)

\* the claim of C10: an entry whose sanitized title is empty and whose
\* episode id is missing or empty is skipped as "no usable name", creates no
\* file and does not make the run fail.
C10_NoUsableNameSkipped ==
    /\ \A r \in Runs : \A i \in Resolved(r) :
           (SanitizedTitleEmpty(origin[i]) /\ NoEpisodeId(origin[i])) =>
               /\ log[r][i].what = "no_name"
               /\ <<r, i>> \notin dlCalled
    /\ ~( /\ pc = "raised"
          /\ idx <= Len(feed.entries)
          /\ SanitizedTitleEmpty(feed.entries[idx])
          /\ NoEpisodeId(feed.entries[idx]) )

\* the file name is free of the characters sanitize_filename removes
CleanName(path) == \A k \in 1 .. Len(path) : path[k] \notin Illegal

\* the claim of C11: when the sanitized title is empty and the episode id is
\* not, the file name is the sanitized episode id followed by ".mp3"; no file
\* name the run chooses holds one of \ / * ? : " < > |.
C11_ChosenNameSanitized ==
    /\ \A r \in Runs : \A i \in Resolved(r) :
           /\ CleanName(log[r][i].path)
           /\ (SanitizedTitleEmpty(origin[i]) /\ ~NoEpisodeId(origin[i])) =>
                  log[r][i].path = sanitize_filename(origin[i].acast_episodeid.val) \o Ext
    /\ call.active => CleanName(call.dest_path)
    /\ \A p \in Paths : disk[p].exists => CleanName(p)

\* the text frames of a call whose metadata holds description and link
TextFrames == {"TIT2", "TPE1", "TALB", "TDRC", "COMM", "WOAS"}

\* C12: when set_metadata is given a cover URL and fetching or embedding the
\* image fails, the failure is caught: the text tags (title, artist, album,
\* date, description and link) are saved all the same, without cover art, and
\* the failure does not leave set_metadata; only a failure of ID3() or of
\* tags.save ends the run from inside set_metadata.
C12_ImageFailureKeepsTextTags ==
    /\ \A r \in Runs : \A i \in Resolved(r) :
           log[r][i].what = "downloaded" =>
               /\ disk[log[r][i].path].tagged
               /\ TextFrames \subseteq disk[log[r][i].path].tags
               /\ "APIC" \in disk[log[r][i].path].tags <=> log[r][i].cover = "ok"
               /\ log[r][i].cover = "fail" => Truthy(origin[i].image)
    /\ (pc = "raised" /\ ended[run] = "TagError") =>
           (call.tag.load = "error" \/ call.tag.save = "error")

\* an entry with a cover URL was tagged although its image could not be
\* fetched: all text frames, no picture
C12_Witness ==
    \E i \in Resolved(run) :
        /\ log[run][i].what = "downloaded"
        /\ log[run][i].cover = "fail"
        /\ origin[i].image = "cover"
        /\ disk[log[run][i].path].tags = TextFrames

Forbidden == {"\\", "/", "*", "?", ":", "\"", "<", ">", "|"}

\* s with every forbidden character taken out, the others left in order
RECURSIVE Stripped(_)
Stripped(s) ==
    IF s = <<>> THEN <<>>
    ELSE IF Head(s) \in Forbidden THEN Stripped(Tail(s))
    ELSE <<Head(s)>> \o Stripped(Tail(s))

\* C14: sanitize_filename returns its input with every occurrence of
\* \ / * ? : " < > | removed and every other character kept in its original
\* order; applied to its own result it returns that result unchanged.
C14_SanitizeRemovesAndIsIdempotent ==
    /\ Len(sanitized) >= 1 =>
           /\ sanitized[1] = Stripped(name)
           /\ \A k \in 1 .. Len(sanitized[1]) : sanitized[1][k] \notin Forbidden
           /\ Len(sanitized[1])
                = Cardinality({k \in 1 .. Len(name) : name[k] \notin Forbidden})
    /\ Len(sanitized) = 2 => sanitized[2] = sanitized[1]

\* a name with two forbidden characters around a kept one went through
\* sanitize_filename twice
C14_Witness ==
    /\ Len(name) = MaxNameLen
    /\ name[1] \in Forbidden
    /\ name[2] \notin Forbidden
    /\ name[MaxNameLen] \in Forbidden
    /\ Len(sanitized) = 2
    /\ Len(sanitized[2]) = MaxNameLen - 2

\* C15: a publish date that is missing or cannot be parsed never blocks an
\* entry.  The date written into the tags is then "unknown" (the ISO date
\* otherwise), and what happens to the entry is decided by its name, its
\* audio link and the file on disk alone, as for an entry with a valid date;
\* no run ends by an exception because of a date.
C15_BadDateNeverBlocks ==
    /\ \A i \in Resolved(run) :
           /\ log[run][i].what = "downloaded" =>
                  disk[log[run][i].path].date
                    = (IF origin[i].published \in {"", "garbage"} THEN "unknown"
                       ELSE "2024-01-01")
           /\ log[run][i].what = "no_name" <=>
                  (SanitizedTitleEmpty(origin[i]) /\ NoEpisodeId(origin[i]))
           /\ log[run][i].what = "no_audio" <=>
                  /\ ~(SanitizedTitleEmpty(origin[i]) /\ NoEpisodeId(origin[i]))
                  /\ ~HasAudioLink(origin[i])
           /\ log[run][i].what = "exists" <=>
                  (Usable(origin[i]) /\ log[run][i].before.exists)
           /\ log[run][i].what \in {"downloaded", "failed"} <=>
                  (Usable(origin[i]) /\ ~log[run][i].before.exists)
    /\ pc = "raised" =>
           \/ /\ ended[run] = "AttributeError"
              /\ ~feed.entries[idx].acast_episodeid.present
           \/ /\ ended[run] = "TagError"
              /\ (call.tag.load = "error" \/ call.tag.save = "error")

\* an entry without date and one with an unparseable date were both
\* downloaded and tagged with the date "unknown"
C15_Witness ==
    /\ pc = "done"
    /\ \E i, j \in Resolved(run) :
           /\ origin[i].published = ""
           /\ origin[j].published = "garbage"
           /\ log[run][i].what = "downloaded"
           /\ log[run][j].what = "downloaded"
           /\ disk[log[run][i].path].date = "unknown"
           /\ disk[log[run][j].path].date = "unknown"

\* the claim of C16: over repeated runs on an unchanged feed, an episode
\* whose download failed is attempted again; no later run stops at "not
\* modified" while the file of an entry whose download failed in an earlier
\* run is still missing.
C16_FailedDownloadRetried ==
    \A r \in Runs : \A q \in Runs :
        (q < r /\ ended[r] = "not_modified") =>
            \A i \in 1 .. Len(origin) :
                <<q, i, FALSE>> \in dlRet => disk[Filename(origin[i])].exists

\* the claim of C17: the stored validator of a URL changes only by a
\* successful fetch of that URL; after a fetch that failed (a result without
\* status or tokens) the etag/modified pair of the URL is, in memory and in
\* the cache file, what it was before the fetch.
C17_FailedFetchKeepsValidator ==
    (feed.kind = "snapshot" /\ feed.status = NoStatus) =>
        /\ CachedEtag(cache, rss_url) = CachedEtag(load_cache(snap.store), rss_url)
        /\ CachedModified(cache, rss_url)
             = CachedModified(load_cache(snap.store), rss_url)
        /\ CachedEtag(load_cache(store), rss_url)
             = CachedEtag(load_cache(snap.store), rss_url)
        /\ CachedModified(load_cache(store), rss_url)
             = CachedModified(load_cache(snap.store), rss_url)

\* C18: no file that existed before a run is deleted, truncated or
\* overwritten by that run.  Every file that was there when the run started
\* is unchanged; download_file is only entered for a path that holds no
\* file, and the file it writes to or removes is the one it created itself,
\* also when several entries of the feed have the same target path.
C18_PreexistingFilesUntouched ==
    /\ pc # "start" =>
           \A p \in Paths : snap.disk[p].exists => disk[p] = snap.disk[p]
    /\ call.active =>
           /\ ~call.before.exists
           /\ ~snap.disk[call.dest_path].exists
           /\ disk[call.dest_path].exists =>
                  disk[call.dest_path].by = <<run, idx>>
    /\ \A c \in dlCalled : \A p \in Paths :
           (disk[p].exists /\ disk[p].by[1] = c[1] /\ disk[p].by[2] < c[2]) =>
               p # Filename(origin[c[2]])

\* two entries with the same target path: the download of the first failed
\* after its file was opened, the second one was downloaded, and the next
\* run found that file and left it alone
C18_Witness ==
    /\ run = 2
    /\ pc = "done"
    /\ \E i, j \in Resolved(2) :
           /\ i < j
           /\ j \in Resolved(1)
           /\ Filename(origin[i]) = Filename(origin[j])
           /\ <<1, i, FALSE>> \in dlRet
           /\ log[1][j].what = "downloaded"
           /\ log[2][i].what = "exists"
           /\ log[2][j].what = "exists"
           /\ disk[Filename(origin[i])].by = <<1, j>>

\* download_file calls of the current run that have not returned
Pending == {c \in CallsOf(run) : \A d \in dlRet : <<d[1], d[2]>> # c}

\* C19: after the single fetch of a run the entries are processed one at a
\* time in feed order.  While the loop is at entry idx, exactly the entries
\* before it are resolved; every download_file and set_metadata call of the
\* run belongs to the current entry or to a resolved one; at most one
\* download_file call has not returned, the one of the current entry, and
\* only its file can be incomplete; the cache file was written at most once
\* in the run.
C19_OneEntryAtATime ==
    /\ pc \in {"loop", "urlopen", "stream", "except", "returned"} =>
           Len(log[run]) = idx - 1
    /\ \A c \in CallsOf(run) : c[2] <= idx
    /\ \A t \in tagCalled : t[1] = run => (t[2] <= idx /\ <<run, t[2], TRUE>> \in dlRet)
    /\ Cardinality(Pending) <= 1
    /\ Pending # {} <=> pc \in {"urlopen", "stream", "except"}
    /\ Pending # {} => Pending = {<<run, idx>>}
    /\ \A p \in Paths : (disk[p].exists /\ ~disk[p].complete) =>
           (pc \in {"stream", "except"} /\ p = call.dest_path)
    /\ saves <= snap.saves + 1

\* the second entry of the feed is being downloaded after the first one was
\* downloaded and tagged
C19_Witness ==
    /\ pc = "stream"
    /\ idx = 2
    /\ disk[call.dest_path].chunks = 1
    /\ log[run][1].what = "downloaded"
    /\ disk[log[run][1].path].tagged
    /\ Pending = {<<run, 2>>}

====
